---- MODULE Spec2Model ----
(***************************************************************************)
(* Student performance tracker (src/main.py): the DatabaseManager over one *)
(* SQLite table "grades", and the Tkinter application that drives it.      *)
(*                                                                         *)
(* Text is modelled as a sequence of one-character strings, so that        *)
(* strip(), LIKE matching and float() are computed character by character. *)
(* A score is an integer (the score texts enumerated below are integral);  *)
(* an average is an exact rational <<numerator, denominator>>.             *)
(***************************************************************************)
EXTENDS Integers, Sequences, FiniteSets, TLC

VARIABLES
    disk,        \* the database file: what has been committed
    conn,        \* DatabaseManager.conn: "none", "open" or "closed"
    view,        \* the database as the open connection sees it (disk plus its open transaction)
    lastCall,    \* the last DatabaseManager call: its name, its arguments and what it returned
    reopened,    \* _create_table has run on a file whose table already held rows
    phase,       \* the application process: "off", "running" or "exited"
    entries,     \* the seven Entry widgets of the form
    search_term_var,
    tree,        \* the rows of the Treeview
    kpi,         \* total_records_var, overall_avg_var, unique_students_var
    messagebox,  \* the dialog the last callback showed
    chart,       \* what the chart area shows
    closeCalls,  \* how often this run called DatabaseManager.close
    insertFailed,\* an add_grade of this run returned False
    opAfterClose,\* a DatabaseManager operation ran on a closed connection
    handler      \* the callback that ran last, the DatabaseManager methods it called, what add_grade returned

storeVars == <<disk, conn, view, lastCall, reopened>>
appVars == <<phase, entries, search_term_var, tree, kpi, messagebox, chart,
             closeCalls, insertFailed, opAfterClose, handler>>
vars == <<disk, conn, view, lastCall, reopened, phase, entries, search_term_var,
          tree, kpi, messagebox, chart, closeCalls, insertFailed, opAfterClose,
          handler>>

(***************************************************************************)
(* Bounds.                                                                 *)
(***************************************************************************)
\* Rows the table may hold in the store-level specification.
MaxRows == 3
\* Rows the table may hold in the application-level specification.
MaxSaved == 2

(***************************************************************************)
(* Text helpers.                                                           *)
(***************************************************************************)
\* ASCII lower-casing of one character (what LIKE and str.casefold do to ASCII).
Lower(c) ==
    CASE c = "A" -> "a"
      [] c = "B" -> "b"
      [] c = "M" -> "m"
      [] OTHER -> c

\* The value SQL gives AVG over no rows, None in Python.
Null == <<>>

RECURSIVE Gcd(_, _)
Gcd(a, b) == IF b = 0 THEN a ELSE Gcd(b, a % b)

\* The real number n/d, d > 0, in lowest terms.
Rat(n, d) == LET g == Gcd(n, d) IN IF g = 0 THEN <<0, 1>> ELSE <<n \div g, d \div g>>

(***************************************************************************)
(* The SQLite table.  A database is [exists, rows, seq]: whether table     *)
(* grades exists, its rows in insertion order, and the sqlite_sequence     *)
(* entry AUTOINCREMENT keeps (the largest id ever assigned).               *)
(***************************************************************************)
NoDatabase == [exists |-> FALSE, rows |-> <<>>, seq |-> 0]

RowSet(db) == {db.rows[i] : i \in 1..Len(db.rows)}

\* A fetched row: the SELECT's eight columns in order.
RowTuple(r) ==
    <<r.id, r.student_name, r.email, r.class, r.division, r.roll_number,
      r.subject, r.score>>

\* CREATE TABLE that forgets IF NOT EXISTS and recreates the table.
CreateTableDropFirst(db) == [exists |-> TRUE, rows |-> <<>>, seq |-> 0]

\* CREATE TABLE IF NOT EXISTS grades (...)
CreateTableIfNotExists(db) ==
    IF db.exists THEN db ELSE [exists |-> TRUE, rows |-> <<>>, seq |-> 0]

\* An INSERT that binds email and roll_number in each other's place.
InsertRowSwapped(db, student_name, email, student_class, division, roll_number, subject, score) ==
    [exists |-> db.exists,
     rows |-> Append(db.rows,
                [id |-> db.seq + 1, student_name |-> student_name,
                 email |-> roll_number, class |-> student_class,
                 division |-> division, roll_number |-> email,
                 subject |-> subject, score |-> score]),
     seq |-> db.seq + 1]

\* INSERT INTO grades (student_name, email, class, division, roll_number,
\* subject, score) VALUES (?, ?, ?, ?, ?, ?, ?): AUTOINCREMENT gives the row
\* the id after the largest ever assigned.
InsertRow(db, student_name, email, student_class, division, roll_number, subject, score) ==
    [exists |-> db.exists,
     rows |-> Append(db.rows,
                [id |-> db.seq + 1, student_name |-> student_name,
                 email |-> email, class |-> student_class,
                 division |-> division, roll_number |-> roll_number,
                 subject |-> subject, score |-> score]),
     seq |-> db.seq + 1]

\* A commit that writes only the transaction's own rows to the file.
CommitOnlyNew(committed, working) ==
    [exists |-> working.exists,
     rows |-> SubSeq(working.rows, Len(committed.rows) + 1, Len(working.rows)),
     seq |-> working.seq]

\* conn.commit(): the file becomes what the connection sees.
Commit(committed, working) == working

RECURSIVE SortAsc(_)
SortAsc(S) ==
    IF S = {} THEN <<>>
    ELSE LET m == CHOOSE r \in S : \A q \in S : r.id <= q.id
         IN <<RowTuple(m)>> \o SortAsc(S \ {m})

\* ORDER BY id DESC over a set of rows, fetched as tuples.
RECURSIVE OrderByIdDesc(_)
OrderByIdDesc(S) ==
    IF S = {} THEN <<>>
    ELSE LET m == CHOOSE r \in S : \A q \in S : q.id <= r.id
         IN <<RowTuple(m)>> \o OrderByIdDesc(S \ {m})

\* SELECT ... FROM grades ORDER BY id ASC.
get_all_grades_asc(db) == SortAsc(RowSet(db))

\* DatabaseManager.get_all_grades
get_all_grades(db) == OrderByIdDesc(RowSet(db))

\* SQLite's LIKE: % matches any run of characters, _ any one character, every
\* other character matches itself up to ASCII case.
RECURSIVE Like(_, _)
Like(pat, str) ==
    IF pat = <<>> THEN str = <<>>
    ELSE IF Head(pat) = "%"
         THEN \E k \in 0..Len(str) : Like(Tail(pat), SubSeq(str, k + 1, Len(str)))
    ELSE IF str = <<>> THEN FALSE
    ELSE IF Head(pat) = "_" THEN Like(Tail(pat), Tail(str))
    ELSE Lower(Head(pat)) = Lower(Head(str)) /\ Like(Tail(pat), Tail(str))

\* DatabaseManager.get_filtered_grades
get_filtered_grades(db, search_term) ==
    LET search_pattern == <<"%">> \o search_term \o <<"%">>
    IN OrderByIdDesc({r \in RowSet(db) : Like(search_pattern, r.student_name)})

RECURSIVE SumScores(_)
SumScores(S) ==
    IF S = {} THEN 0
    ELSE LET r == CHOOSE r \in S : TRUE IN r.score + SumScores(S \ {r})

\* SUM(score) where AVG(score) was meant.
SumAsRat(S) == IF S = {} THEN Null ELSE Rat(SumScores(S), 1)

\* AVG(score) over a set of rows: NULL over no rows.
Avg(S) == IF S = {} THEN Null ELSE Rat(SumScores(S), Cardinality(S))

RECURSIVE GroupRows(_, _)
GroupRows(subjects, db) ==
    IF subjects = {} THEN <<>>
    ELSE LET s == CHOOSE s \in subjects : TRUE
         IN <<<<s, Avg({r \in RowSet(db) : r.subject = s})>>>>
            \o GroupRows(subjects \ {s}, db)

\* DatabaseManager.get_average_grades_by_subject: one row per group; SQL leaves
\* the order of the groups open.
get_average_grades_by_subject(db) ==
    GroupRows({r.subject : r \in RowSet(db)}, db)

\* Python's "x or d" on an integer and on an average that may be None.
OrInt(x, d) == IF x = 0 THEN d ELSE x
OrAvg(x, d) == IF x = Null \/ x[1] = 0 THEN d ELSE x

\* get_summary_stats with COUNT(student_name) where COUNT(DISTINCT ...) was meant.
get_summary_stats_not_distinct(db) ==
    <<OrInt(Len(db.rows), 0), OrAvg(Avg(RowSet(db)), <<0, 1>>), OrInt(Len(db.rows), 0)>>

\* DatabaseManager.get_summary_stats
get_summary_stats(db) ==
    LET count == Len(db.rows)
        avg == Avg(RowSet(db))
        unique_students == Cardinality({r.student_name : r \in RowSet(db)})
    IN <<OrInt(count, 0), OrAvg(avg, <<0, 1>>), OrInt(unique_students, 0)>>

(***************************************************************************)
(* DatabaseManager's methods on (disk, view).                              *)
(***************************************************************************)
\* DatabaseManager.__init__: connect, then _create_table and its commit.
DatabaseManager_init(committed) == CreateTableIfNotExists(committed)

\* DatabaseManager.add_grade: the outcomes of execute and commit inside the
\* try block.  Each outcome is [disk, view, ret].  The except branch returns
\* False and issues no rollback, so what the connection sees afterwards is
\* what SQLite left: nothing of the statement when execute raised; the whole
\* transaction undone when commit raised and SQLite rolled back; the row
\* still pending in the open transaction when commit raised and SQLite kept
\* the transaction (SQLITE_BUSY).
add_grade(committed, working, student_name, email, student_class, division, roll_number, subject, score) ==
    LET inserted == InsertRow(working, student_name, email, student_class,
                              division, roll_number, subject, score)
    IN { [disk |-> Commit(committed, inserted), view |-> Commit(committed, inserted), ret |-> TRUE],
         [disk |-> committed, view |-> working, ret |-> FALSE],
         [disk |-> committed, view |-> committed, ret |-> FALSE],
         [disk |-> committed, view |-> inserted, ret |-> FALSE] }

\* DatabaseManager.close: the connection goes, and with it any transaction
\* that was never committed.
close(committed) == committed

(***************************************************************************)
(* Inputs of the store-level specification: argument tuples the            *)
(* application's validation lets through.                                  *)
(***************************************************************************)
Students ==
    { [student_name |-> <<"A">>, email |-> <<"e">>, class |-> <<"X">>,
       division |-> <<"D">>, roll_number |-> <<"7">>],
      [student_name |-> <<"a", "b">>, email |-> <<>>, class |-> <<"Y">>,
       division |-> <<"E">>, roll_number |-> <<>>] }
\* (subject, score) pairs: two subjects that differ only in case, a zero score.
Gradings == {<<<<"M">>, 0>>, <<<<"M">>, 100>>, <<<<"m">>, 60>>}
GradeArgs ==
    { [student_name |-> st.student_name, email |-> st.email, class |-> st.class,
       division |-> st.division, roll_number |-> st.roll_number,
       subject |-> g[1], score |-> g[2]] : st \in Students, g \in Gradings }
SearchTerms == {<<>>, <<"a">>, <<"B">>, <<"_">>, <<"%">>}

\* A DatabaseManager call.  Every method's argument and return value has a
\* field of its own: the search term, the seven values of add_grade and its
\* boolean, the fetched grade rows, the (subject, average) rows, the summary.
NoArgs ==
    [student_name |-> <<>>, email |-> <<>>, class |-> <<>>, division |-> <<>>,
     roll_number |-> <<>>, subject |-> <<>>, score |-> 0]
NoCall ==
    [op |-> "none", term |-> <<>>, args |-> NoArgs, ok |-> FALSE, rows |-> <<>>,
     avgs |-> <<>>, stats |-> <<0, <<0, 1>>, 0>>]
CallInit == [NoCall EXCEPT !.op = "__init__"]
CallClose == [NoCall EXCEPT !.op = "close"]
CallAddGrade(a, ok) == [NoCall EXCEPT !.op = "add_grade", !.args = a, !.ok = ok]
CallGetAllGrades(db) ==
    [NoCall EXCEPT !.op = "get_all_grades", !.rows = get_all_grades(db)]
CallGetFilteredGrades(db, s) ==
    [NoCall EXCEPT !.op = "get_filtered_grades", !.term = s,
                   !.rows = get_filtered_grades(db, s)]
CallGetAverageGradesBySubject(db) ==
    [NoCall EXCEPT !.op = "get_average_grades_by_subject",
                   !.avgs = get_average_grades_by_subject(db)]
CallGetSummaryStats(db) ==
    [NoCall EXCEPT !.op = "get_summary_stats", !.stats = get_summary_stats(db)]

(***************************************************************************)
(* The application's pure parts.  A text shown with one decimal            *)
(* (f"{x:.1f}") is modelled by its number of tenths; an integer shown as   *)
(* text by the integer.                                                    *)
(***************************************************************************)
Whitespace == {" "}

RECURSIVE LStrip(_)
LStrip(s) == IF s # <<>> /\ Head(s) \in Whitespace THEN LStrip(Tail(s)) ELSE s

RECURSIVE RStrip(_)
RStrip(s) ==
    IF s # <<>> /\ s[Len(s)] \in Whitespace THEN RStrip(SubSeq(s, 1, Len(s) - 1)) ELSE s

\* str.strip()
Strip(s) == RStrip(LStrip(s))

DigitValue(c) ==
    CASE c = "0" -> 0 [] c = "1" -> 1 [] c = "2" -> 2 [] c = "3" -> 3 [] c = "4" -> 4
      [] c = "5" -> 5 [] c = "6" -> 6 [] c = "7" -> 7 [] c = "8" -> 8 [] c = "9" -> 9
      [] OTHER -> -1

IsDigits(s) == s # <<>> /\ \A i \in 1..Len(s) : DigitValue(s[i]) >= 0

RECURSIVE Decimal(_)
Decimal(s) == IF s = <<>> THEN 0 ELSE 10 * Decimal(SubSeq(s, 1, Len(s) - 1)) + DigitValue(s[Len(s)])

\* float(score_str) on texts made of digits, "-", and letters: an optional
\* sign, then digits or "nan"; anything else raises ValueError.
float(s) ==
    LET negative == s # <<>> /\ Head(s) = "-"
        body == IF negative THEN Tail(s) ELSE s
    IN IF body = <<"n", "a", "n">> THEN [kind |-> "nan", value |-> 0]
       ELSE IF IsDigits(body)
            THEN [kind |-> "number",
                  value |-> IF negative THEN 0 - Decimal(body) ELSE Decimal(body)]
       ELSE [kind |-> "ValueError", value |-> 0]

\* f"{x:.1f}" of the rational q >= 0, as a number of tenths: the nearest
\* tenth, a tie going to the even one.
FormatOneDecimal(q) ==
    LET t == (10 * q[1]) \div q[2]
        rem == (10 * q[1]) % q[2]
    IN IF 2 * rem > q[2] THEN t + 1
       ELSE IF 2 * rem < q[2] THEN t
       ELSE IF t % 2 = 0 THEN t ELSE t + 1

\* A dialog: showerror or showinfo, its title, its message, and the name the
\* success message quotes.
Dialog(kind, title, message) ==
    [kind |-> kind, title |-> title, message |-> message, name |-> <<>>]
NoDialog == Dialog("none", "", "")
NoChart == [kind |-> "none", data |-> <<>>]
NoHandler == [name |-> "none", ops |-> <<>>, saved |-> "n/a"]
InitialKpi == [total_records |-> 0, overall_avg |-> 0, unique_students |-> 0]

\* The validation of add_grade that lets the division field go unchecked.
ValidateNoDivision(e) ==
    LET name == Strip(e.name)
        email == Strip(e.email)
        student_class == Strip(e.class)
        division == Strip(e.division)
        roll_number == Strip(e.roll)
        subject == Strip(e.subject)
        score_str == Strip(e.score)
        score == float(score_str)
        args == [student_name |-> name, email |-> email, class |-> student_class,
                 division |-> division, roll_number |-> roll_number,
                 subject |-> subject, score |-> score.value]
    IN IF name = <<>> \/ student_class = <<>> \/ subject = <<>> \/ score_str = <<>>
       THEN [result |-> "required", args |-> args]
       ELSE IF score.kind = "ValueError" THEN [result |-> "not a number", args |-> args]
       ELSE IF ~(score.kind = "number" /\ 0 <= score.value /\ score.value <= 100)
            THEN [result |-> "out of range", args |-> args]
       ELSE [result |-> "ok", args |-> args]

\* PerformanceTrackerApp.add_grade up to the call of self.db.add_grade: the
\* stripped fields, and which of the three input errors, if any, ends it.
Validate(e) ==
    LET name == Strip(e.name)
        email == Strip(e.email)
        student_class == Strip(e.class)
        division == Strip(e.division)
        roll_number == Strip(e.roll)
        subject == Strip(e.subject)
        score_str == Strip(e.score)
        score == float(score_str)
        args == [student_name |-> name, email |-> email, class |-> student_class,
                 division |-> division, roll_number |-> roll_number,
                 subject |-> subject, score |-> score.value]
    IN IF name = <<>> \/ student_class = <<>> \/ division = <<>> \/ subject = <<>>
          \/ score_str = <<>>
       THEN [result |-> "required", args |-> args]
       ELSE IF score.kind = "ValueError" THEN [result |-> "not a number", args |-> args]
       ELSE IF ~(score.kind = "number" /\ 0 <= score.value /\ score.value <= 100)
            THEN [result |-> "out of range", args |-> args]
       ELSE [result |-> "ok", args |-> args]

\* The dialog each input error shows.
InputError(result) ==
    CASE result = "required" ->
           Dialog("showerror", "Input Error",
                  "Name, Class, Division, Subject, and Score are required fields.")
      [] result = "out of range" ->
           Dialog("showerror", "Input Error",
                  "Score must be a numerical value between 0 and 100.")
      [] OTHER ->
           Dialog("showerror", "Input Error", "Score must be a valid number.")

\* PerformanceTrackerApp.update_kpi_cards
update_kpi_cards(db) ==
    LET st == get_summary_stats(db)
    IN [total_records |-> st[1],
        overall_avg |-> IF st[2][1] > 0 THEN FormatOneDecimal(st[2]) ELSE 0,
        unique_students |-> st[3]]

\* The Treeview rows load_grades inserts: the first seven columns as fetched,
\* the score with one decimal.
FormatGrades(grades) ==
    [i \in 1..Len(grades) |->
        SubSeq(grades[i], 1, 7) \o <<FormatOneDecimal(<<grades[i][8], 1>>)>>]

\* PerformanceTrackerApp.load_grades: the KPI cards, then the Treeview.
load_grades(db, search_term) ==
    [kpi |-> update_kpi_cards(db),
     tree |-> FormatGrades(IF search_term # <<>>
                           THEN get_filtered_grades(db, search_term)
                           ELSE get_all_grades(db)),
     ops |-> <<"get_summary_stats",
               IF search_term # <<>> THEN "get_filtered_grades" ELSE "get_all_grades">>]

\* PerformanceTrackerApp.generate_chart(placeholder=False): the bars, or the
\* "not enough data" dialog and the placeholder.
generate_chart(db) ==
    LET avg_grades == get_average_grades_by_subject(db)
    IN IF avg_grades = <<>>
       THEN [chart |-> [kind |-> "placeholder", data |-> <<>>],
             dialog |-> Dialog("showinfo", "Chart Info",
                               "Not enough data. Add some grades first!")]
       ELSE [chart |-> [kind |-> "bars", data |-> avg_grades], dialog |-> NoDialog]

\* Window.destroy that leaves the window up.
destroy_skipped(p) == p

\* self.destroy(): the window goes and mainloop returns.
destroy(p) == "exited"

(***************************************************************************)
(* What the user may put in the form and in the search box.                *)
(***************************************************************************)
FormA ==
    [name |-> <<" ", "A">>, email |-> <<"e", " ">>, class |-> <<"X">>,
     division |-> <<"D">>, roll |-> <<"7">>, subject |-> <<"M", " ">>,
     score |-> <<" ", "6", "0">>]
FormB ==
    [name |-> <<"a", "b">>, email |-> <<>>, class |-> <<"X">>,
     division |-> <<"D">>, roll |-> <<>>, subject |-> <<"m">>,
     score |-> <<"1", "0", "0">>]
FormInputs ==
    { FormA, FormB,
      [FormA EXCEPT !.name = <<" ">>],
      [FormA EXCEPT !.class = <<>>],
      [FormA EXCEPT !.division = <<" ">>],
      [FormA EXCEPT !.subject = <<>>],
      [FormA EXCEPT !.score = <<>>],
      [FormA EXCEPT !.score = <<"x">>],
      [FormA EXCEPT !.score = <<"1", "0", "1">>],
      [FormA EXCEPT !.score = <<"-", "1">>],
      [FormA EXCEPT !.score = <<"n", "a", "n">>] }
\* The search box: empty, a text that matches some names and not others, and
\* a LIKE wildcard.
AppSearchTerms == {<<>>, <<"b">>, <<"_">>}

(***************************************************************************)
(* Initial state: no database file, the application not started.           *)
(***************************************************************************)
EmptyEntries ==
    [name |-> <<>>, email |-> <<>>, class |-> <<>>, division |-> <<>>,
     roll |-> <<>>, subject |-> <<>>, score |-> <<>>]

Init ==
    /\ disk = NoDatabase
    /\ conn = "none"
    /\ view = NoDatabase
    /\ lastCall = NoCall
    /\ reopened = FALSE
    /\ phase = "off"
    /\ entries = EmptyEntries
    /\ search_term_var = <<>>
    /\ tree = <<>>
    /\ kpi = InitialKpi
    /\ messagebox = NoDialog
    /\ chart = NoChart
    /\ closeCalls = 0
    /\ insertFailed = FALSE
    /\ opAfterClose = FALSE
    /\ handler = NoHandler

(***************************************************************************)
(* Store-level specification: the DatabaseManager's methods, called as the *)
(* application calls them (one manager per run, reads and inserts while it *)
(* is open, close at the end, a new manager on the same file afterwards).  *)
(***************************************************************************)
StoreInitialize ==
    /\ conn # "open"
    /\ disk' = DatabaseManager_init(disk)
    /\ view' = disk'
    /\ conn' = "open"
    /\ reopened' = (reopened \/ disk.rows # <<>>)
    /\ lastCall' = CallInit
    /\ UNCHANGED appVars

StoreAddGrade ==
    /\ conn = "open"
    /\ Len(view.rows) < MaxRows
    /\ \E a \in GradeArgs :
         \E out \in add_grade(disk, view, a.student_name, a.email, a.class,
                               a.division, a.roll_number, a.subject, a.score) :
            /\ disk' = out.disk
            /\ view' = out.view
            /\ lastCall' = CallAddGrade(a, out.ret)
    /\ UNCHANGED <<conn, reopened>>
    /\ UNCHANGED appVars

StoreGetAllGrades ==
    /\ conn = "open"
    /\ lastCall' = CallGetAllGrades(view)
    /\ UNCHANGED <<disk, conn, view, reopened>>
    /\ UNCHANGED appVars

StoreGetFilteredGrades ==
    /\ conn = "open"
    /\ \E s \in SearchTerms :
         lastCall' = CallGetFilteredGrades(view, s)
    /\ UNCHANGED <<disk, conn, view, reopened>>
    /\ UNCHANGED appVars

StoreGetAverageGradesBySubject ==
    /\ conn = "open"
    /\ lastCall' = CallGetAverageGradesBySubject(view)
    /\ UNCHANGED <<disk, conn, view, reopened>>
    /\ UNCHANGED appVars

StoreGetSummaryStats ==
    /\ conn = "open"
    /\ lastCall' = CallGetSummaryStats(view)
    /\ UNCHANGED <<disk, conn, view, reopened>>
    /\ UNCHANGED appVars

StoreClose ==
    /\ conn = "open"
    /\ conn' = "closed"
    /\ view' = close(disk)
    /\ lastCall' = CallClose
    /\ UNCHANGED <<disk, reopened>>
    /\ UNCHANGED appVars

StoreNext ==
    \/ StoreInitialize
    \/ StoreAddGrade
    \/ StoreGetAllGrades
    \/ StoreGetFilteredGrades
    \/ StoreGetAverageGradesBySubject
    \/ StoreGetSummaryStats
    \/ StoreClose

SpecStore == Init /\ [][StoreNext]_vars

(***************************************************************************)
(* Application-level specification: one action per callback of             *)
(* PerformanceTrackerApp, each with every DatabaseManager call it makes.   *)
(* A run starts with __main__ and ends with on_closing; the program may be *)
(* started again on the same database file.                                *)
(***************************************************************************)
\* __main__: PerformanceTrackerApp() - the DatabaseManager, the KPI variables,
\* the widgets with the chart placeholder, then load_grades().
AppStart ==
    /\ phase \in {"off", "exited"}
    /\ LET db == DatabaseManager_init(disk)
           lg == load_grades(db, <<>>)
       IN /\ disk' = db
          /\ view' = db
          /\ tree' = lg.tree
          /\ kpi' = lg.kpi
          /\ lastCall' = CallGetAllGrades(db)
          /\ handler' = [name |-> "__init__", ops |-> <<"__init__">> \o lg.ops,
                         saved |-> "n/a"]
    /\ conn' = "open"
    /\ reopened' = (reopened \/ disk.rows # <<>>)
    /\ phase' = "running"
    /\ entries' = EmptyEntries
    /\ search_term_var' = <<>>
    /\ messagebox' = NoDialog
    /\ chart' = [kind |-> "placeholder", data |-> <<>>]
    /\ closeCalls' = 0
    /\ insertFailed' = FALSE
    /\ UNCHANGED opAfterClose

\* The user fills in the form (the Entry widgets have no callback).
TypeForm ==
    /\ phase = "running"
    /\ \E f \in FormInputs : entries' = f
    /\ handler' = [name |-> "edit", ops |-> <<>>, saved |-> "n/a"]
    /\ messagebox' = NoDialog
    /\ UNCHANGED <<disk, conn, view, lastCall, reopened, phase, search_term_var,
                   tree, kpi, chart, closeCalls, insertFailed, opAfterClose>>

\* The user edits the search box: the write trace of search_term_var calls
\* load_grades(search_term_var.get()).
EditSearch ==
    /\ phase = "running"
    /\ \E s \in AppSearchTerms :
         LET lg == load_grades(view, s)
         IN /\ search_term_var' = s
            /\ kpi' = lg.kpi
            /\ tree' = lg.tree
            /\ lastCall' = IF s # <<>> THEN CallGetFilteredGrades(view, s)
                           ELSE CallGetAllGrades(view)
            /\ handler' = [name |-> "load_grades", ops |-> lg.ops, saved |-> "n/a"]
    /\ opAfterClose' = (opAfterClose \/ conn # "open")
    /\ messagebox' = NoDialog
    /\ UNCHANGED <<disk, conn, view, reopened, phase, entries, chart, closeCalls,
                   insertFailed>>

\* SAVE GRADE RECORD: PerformanceTrackerApp.add_grade.
SaveGrade ==
    /\ phase = "running"
    /\ LET v == Validate(entries)
       IN IF v.result # "ok"
          THEN /\ messagebox' = InputError(v.result)
               /\ handler' = [name |-> "add_grade", ops |-> <<>>, saved |-> "n/a"]
               /\ UNCHANGED <<disk, conn, view, lastCall, reopened, phase, entries,
                              search_term_var, tree, kpi, chart, closeCalls,
                              insertFailed, opAfterClose>>
          ELSE /\ Len(view.rows) < MaxSaved
               /\ opAfterClose' = (opAfterClose \/ conn # "open")
               /\ \E out \in add_grade(disk, view, v.args.student_name, v.args.email,
                                       v.args.class, v.args.division,
                                       v.args.roll_number, v.args.subject,
                                       v.args.score) :
                    /\ disk' = out.disk
                    /\ view' = out.view
                    /\ IF out.ret
                       THEN LET lg == load_grades(out.view, <<>>)
                                gc == generate_chart(out.view)
                            IN /\ messagebox' =
                                    IF gc.dialog # NoDialog THEN gc.dialog
                                    ELSE [Dialog("showinfo", "Success",
                                                 "Record for {name} added.")
                                          EXCEPT !.name = v.args.student_name]
                               /\ entries' = [entries EXCEPT !.name = <<>>,
                                                !.email = <<>>, !.roll = <<>>,
                                                !.subject = <<>>, !.score = <<>>]
                               /\ kpi' = lg.kpi
                               /\ tree' = lg.tree
                               /\ chart' = gc.chart
                               /\ lastCall' = CallGetAverageGradesBySubject(out.view)
                               /\ handler' = [name |-> "add_grade",
                                              ops |-> <<"add_grade">> \o lg.ops
                                                      \o <<"get_average_grades_by_subject">>,
                                              saved |-> "True"]
                               /\ UNCHANGED insertFailed
                       ELSE /\ messagebox' = Dialog("showerror", "Database Error",
                                                    "Failed to save record.")
                            /\ lastCall' = CallAddGrade(v.args, FALSE)
                            /\ handler' = [name |-> "add_grade", ops |-> <<"add_grade">>,
                                           saved |-> "False"]
                            /\ insertFailed' = TRUE
                            /\ UNCHANGED <<entries, kpi, tree, chart>>
               /\ UNCHANGED <<conn, reopened, phase, search_term_var, closeCalls>>

\* VISUALIZE SUBJECT AVERAGES: PerformanceTrackerApp.generate_chart().
Visualize ==
    /\ phase = "running"
    /\ LET gc == generate_chart(view)
       IN /\ chart' = gc.chart
          /\ messagebox' = gc.dialog
    /\ lastCall' = CallGetAverageGradesBySubject(view)
    /\ handler' = [name |-> "generate_chart",
                   ops |-> <<"get_average_grades_by_subject">>, saved |-> "n/a"]
    /\ opAfterClose' = (opAfterClose \/ conn # "open")
    /\ UNCHANGED <<disk, conn, view, reopened, phase, entries, search_term_var,
                   tree, kpi, closeCalls, insertFailed>>

\* WM_DELETE_WINDOW: PerformanceTrackerApp.on_closing - close the database,
\* destroy the window and with it every widget.
on_closing ==
    /\ phase = "running"
    /\ conn' = "closed"
    /\ view' = close(disk)
    /\ closeCalls' = closeCalls + 1
    /\ phase' = destroy(phase)
    /\ lastCall' = CallClose
    /\ handler' = [name |-> "on_closing", ops |-> <<"close">>, saved |-> "n/a"]
    /\ entries' = EmptyEntries
    /\ search_term_var' = <<>>
    /\ tree' = <<>>
    /\ kpi' = InitialKpi
    /\ messagebox' = NoDialog
    /\ chart' = NoChart
    /\ UNCHANGED <<disk, reopened, insertFailed, opAfterClose>>

Next ==
    \/ AppStart
    \/ TypeForm
    \/ EditSearch
    \/ SaveGrade
    \/ Visualize
    \/ on_closing

Spec == Init /\ [][Next]_vars

(***************************************************************************)
(* Vocabulary of the properties.                                           *)
(***************************************************************************)
ReadOps == {"get_all_grades", "get_filtered_grades",
            "get_average_grades_by_subject", "get_summary_stats"}

IsPrefix(s, t) == Len(s) <= Len(t) /\ SubSeq(t, 1, Len(s)) = s

CaseFold(s) == [i \in 1..Len(s) |-> Lower(s[i])]

\* s occurs in t as a contiguous run of characters.
IsInfix(s, t) ==
    \E i \in 0..(Len(t) - Len(s)) : SubSeq(t, i + 1, i + Len(s)) = s

Ids(db) == {db.rows[i].id : i \in 1..Len(db.rows)}

StrictlyDescendingIds(fetched) ==
    \A i \in 1..(Len(fetched) - 1) : fetched[i][1] > fetched[i + 1][1]

\* The fetched rows that carry these seven values.
Carries(t, a) ==
    /\ t[2] = a.student_name
    /\ t[3] = a.email
    /\ t[4] = a.class
    /\ t[5] = a.division
    /\ t[6] = a.roll_number
    /\ t[7] = a.subject
    /\ t[8] = a.score

RECURSIVE TotalScore(_)
TotalScore(rows) ==
    IF rows = <<>> THEN 0 ELSE Head(rows).score + TotalScore(Tail(rows))

\* q = <<n, d>> is the mean of the scores of these rows (a non-empty sequence).
IsMeanOf(q, rows) ==
    /\ q # Null
    /\ q[2] > 0
    /\ q[1] * Len(rows) = TotalScore(rows) * q[2]

(***************************************************************************)
(* Properties of the store.                                                *)
(***************************************************************************)
\* C1: a successful add_grade is followed by a get_all_grades that holds a row
\* whose id no row had before the insert and whose seven other columns are
\* the inserted values, unchanged.
C1_RoundTrip ==
    [][(lastCall'.op = "add_grade" /\ lastCall'.ok) =>
          LET all == get_all_grades(view')
          IN \E i \in 1..Len(all) :
                /\ all[i][1] \notin Ids(view)
                /\ Carries(all[i], lastCall'.args)]_vars

C1_Witness ==
    /\ lastCall.op = "add_grade"
    /\ lastCall.ok
    /\ Len(view.rows) >= 2
    /\ lastCall.args.email # lastCall.args.roll_number
    /\ Carries(get_all_grades(view)[1], lastCall.args)

\* C2: get_all_grades returns every row, in strictly descending id order,
\* which is the reverse of insertion order; get_filtered_grades returns its
\* rows in strictly descending id order too.
C2_Ordering ==
    /\ lastCall.op = "get_all_grades" =>
          /\ Len(lastCall.rows) = Len(view.rows)
          /\ \A i \in 1..Len(view.rows) :
                lastCall.rows[i] = RowTuple(view.rows[Len(view.rows) + 1 - i])
          /\ StrictlyDescendingIds(lastCall.rows)
    /\ lastCall.op = "get_filtered_grades" => StrictlyDescendingIds(lastCall.rows)

C2_Witness ==
    /\ lastCall.op = "get_all_grades"
    /\ Len(lastCall.rows) = 3
    /\ lastCall.rows[1][1] > lastCall.rows[3][1]

\* C3: a row is returned by get_filtered_grades(S) exactly when the case-folded
\* S is an infix of the row's case-folded student_name.
C3_FilterIsInfix ==
    lastCall.op = "get_filtered_grades" =>
        \A i \in 1..Len(view.rows) :
            (\E j \in 1..Len(lastCall.rows) : lastCall.rows[j] = RowTuple(view.rows[i]))
            <=> IsInfix(CaseFold(lastCall.term), CaseFold(view.rows[i].student_name))

\* C4: get_average_grades_by_subject returns exactly one pair for each subject
\* present (subjects compared exactly), its second component the mean of the
\* scores of the rows with that subject; nothing over an empty table.
C4_Aggregate ==
    lastCall.op = "get_average_grades_by_subject" =>
        LET ret == lastCall.avgs
            of(s) == SelectSeq(view.rows, LAMBDA r : r.subject = s)
        IN /\ \A i \in 1..Len(view.rows) :
                 Cardinality({j \in 1..Len(ret) : ret[j][1] = view.rows[i].subject}) = 1
           /\ \A j \in 1..Len(ret) :
                 /\ of(ret[j][1]) # <<>>
                 /\ IsMeanOf(ret[j][2], of(ret[j][1]))
           /\ (view.rows = <<>> => ret = <<>>)

C4_Witness ==
    /\ lastCall.op = "get_average_grades_by_subject"
    /\ Len(lastCall.avgs) = 2
    /\ \E j \in 1..2 : lastCall.avgs[j] = <<<<"M">>, <<50, 1>>>>
    /\ \E j \in 1..2 : lastCall.avgs[j] = <<<<"m">>, <<60, 1>>>>

\* C5: get_summary_stats returns (number of rows, mean of all scores, number
\* of distinct student_name values); over an empty table (0, 0.0, 0), never
\* None in any position.
C5_Summary ==
    lastCall.op = "get_summary_stats" =>
        LET ret == lastCall.stats
        IN /\ ret[1] = Len(view.rows)
           /\ ret[3] = Cardinality({view.rows[i].student_name : i \in 1..Len(view.rows)})
           /\ ret[2] # Null
           /\ IF view.rows = <<>> THEN ret = <<0, <<0, 1>>, 0>>
              ELSE IsMeanOf(ret[2], view.rows)

C5_Witness ==
    /\ lastCall.op = "get_summary_stats"
    /\ lastCall.stats[1] = 3
    /\ lastCall.stats[3] = 2
    /\ lastCall.stats[2] = <<160, 3>>

\* C6: no step removes or changes a committed row (the committed rows stay a
\* prefix of the table, each with its id and values), every committed row is
\* in what the connection reads, and a read leaves the database and the
\* connection's view of it as they were.
C6_Immutability ==
    [][/\ IsPrefix(disk.rows, disk'.rows)
       /\ (conn' = "open" => IsPrefix(disk'.rows, view'.rows))
       /\ (lastCall'.op \in ReadOps => disk' = disk /\ view' = view)]_vars

C6_Witness ==
    /\ lastCall.op = "get_all_grades"
    /\ reopened
    /\ Len(disk.rows) >= 2
    /\ Len(lastCall.rows) = Len(disk.rows)

\* C8: DatabaseManager.__init__ on a file that already holds the table leaves
\* the file exactly as it was, and no two rows ever share an id.
C8_IdempotentInit ==
    /\ [][(lastCall'.op = "__init__" /\ disk.exists) => disk' = disk]_vars
    /\ [](\A i, j \in 1..Len(view.rows) :
             view.rows[i].id = view.rows[j].id => i = j)

C8_Witness ==
    /\ reopened
    /\ lastCall.op = "add_grade"
    /\ lastCall.ok
    /\ Len(disk.rows) >= 2

(***************************************************************************)
(* Properties of the application.                                          *)
(***************************************************************************)
\* The form passes the validation the interface contract asks for: name,
\* class, division and subject non-empty once trimmed, and the trimmed score
\* text a number from 0 to 100.
FormIsValid(e) ==
    /\ Strip(e.name) # <<>>
    /\ Strip(e.class) # <<>>
    /\ Strip(e.division) # <<>>
    /\ Strip(e.subject) # <<>>
    /\ float(Strip(e.score)).kind = "number"
    /\ float(Strip(e.score)).value >= 0
    /\ float(Strip(e.score)).value <= 100

\* C7: when DatabaseManager.add_grade returns False, the rows the store holds
\* and returns are exactly those from before the call, and the application
\* shows the database error and leaves the form, the table, the KPI cards and
\* the chart as they were.
C7_FailedInsertChangesNothing ==
    [][(handler'.name = "add_grade" /\ handler'.saved = "False") =>
          /\ disk' = disk
          /\ view' = view
          /\ messagebox'.title = "Database Error"
          /\ entries' = entries
          /\ tree' = tree
          /\ kpi' = kpi
          /\ chart' = chart]_vars

\* C9: a run calls close at most once, a run that has ended has called it
\* exactly once (also when an add_grade of the run failed), and no
\* DatabaseManager operation ever runs on a closed connection.
C9_ShutdownDiscipline ==
    /\ closeCalls <= 1
    /\ (phase = "exited" => closeCalls = 1 /\ conn = "closed")
    /\ (phase = "running" => closeCalls = 0 /\ conn = "open")
    /\ ~opAfterClose

C9_Witness ==
    /\ phase = "exited"
    /\ closeCalls = 1
    /\ insertFailed
    /\ Len(disk.rows) >= 1

\* C10: the save callback calls DatabaseManager.add_grade exactly when the form
\* is valid; otherwise it shows an input error, calls nothing and leaves
\* the database alone.  So every row, committed or pending, has a non-empty
\* student_name, class, division and subject and a score from 0 to 100.
C10_ValidationGate ==
    /\ [][handler'.name = "add_grade" =>
            IF FormIsValid(entries)
            THEN handler'.ops # <<>> /\ handler'.ops[1] = "add_grade"
            ELSE /\ handler'.ops = <<>>
                 /\ messagebox'.title = "Input Error"
                 /\ disk' = disk
                 /\ view' = view]_vars
    /\ [](\A i \in 1..Len(view.rows) :
             LET r == view.rows[i]
             IN /\ r.student_name # <<>>
                /\ r.class # <<>>
                /\ r.division # <<>>
                /\ r.subject # <<>>
                /\ r.score >= 0
                /\ r.score <= 100)

C10_Witness ==
    /\ handler.name = "add_grade"
    /\ handler.ops = <<>>
    /\ messagebox.title = "Input Error"
    /\ Strip(entries.division) = <<>>
    /\ Len(disk.rows) >= 1

\* What the Treeview shows for fetched rows: the first seven columns, and the
\* score with one decimal.
Displayed(fetched) ==
    [i \in 1..Len(fetched) |->
        <<fetched[i][1], fetched[i][2], fetched[i][3], fetched[i][4],
          fetched[i][5], fetched[i][6], fetched[i][7],
          FormatOneDecimal(<<fetched[i][8], 1>>)>>]

\* C11: while the application runs, the Treeview shows get_filtered_grades of
\* the current search text (get_all_grades when the text is empty) and the
\* three KPI cards show get_summary_stats, both of the database as it is now.
\* Stated for the runs in which no add_grade has failed: the claim covers
\* them, and in them the connection has no pending row.
C11_ViewConsistency ==
    (phase = "running" /\ ~insertFailed) =>
        LET st == get_summary_stats(view)
        IN /\ tree = Displayed(IF search_term_var # <<>>
                               THEN get_filtered_grades(view, search_term_var)
                               ELSE get_all_grades(view))
           /\ kpi.total_records = st[1]
           /\ kpi.overall_avg = FormatOneDecimal(st[2])
           /\ kpi.unique_students = st[3]

====
